---- MODULE Spec2Model ----
(***************************************************************************)
(* Proofs by deduction in Propositional Logic (propositions/proofs.py):    *)
(* inference rules, specialization maps, proof validity, and the proof     *)
(* transformations prove_specialization, _inline_proof_once, inline_proof. *)
(* Also the encoding of function names as relation names                   *)
(* (predicates/functions.py).                                              *)
(*                                                                         *)
(* Formulas are tuples: <<root>> for a variable or a constant,             *)
(* <<root, first>> for a unary operator, <<root, first, second>> for a     *)
(* binary operator.  Python's None is the value None; a specialization map *)
(* is a function from variable names to formulas.  Line numbers are        *)
(* 0-based as in the source; a Python index i into a tuple t is At(t, i).  *)
(***************************************************************************)
EXTENDS Integers, Sequences, FiniteSets, TLC

VARIABLES
    pc,           \* which operation is being set up, is running or has returned
    general,      \* rule-level input: the general rule
    candidate,    \* rule-level input: the candidate specialization
    sm,           \* value returned by specialization_map
    specialized,  \* value returned by specialize
    verdict,      \* value returned by is_specialization_of
    main,         \* the (main) proof given to the proof-level operations
    lemma,        \* the lemma proof given to the inlining operations
    target,       \* the specialization given to prove_specialization
    lineno,       \* the line number given to is_line_valid / _inline_proof_once
    new_proof,    \* inline_proof's local variable new_proof
    result,       \* the value an operation returned
    outcome,      \* "none", "returned" or "raised"
    map1,         \* first map given to _merge_specialization_maps
    map2,         \* second map given to _merge_specialization_maps
    merged,       \* value returned by _merge_specialization_maps
    function_name,  \* name given to function_name_to_relation_name
    relation_name,  \* value returned by function_name_to_relation_name
    round_trip    \* value returned by relation_name_to_function_name

rule_vars == <<general, candidate, sm, specialized, verdict>>

proof_vars == <<main, lemma, target, lineno, new_proof, result, outcome>>

merge_vars == <<map1, map2, merged>>

name_vars == <<function_name, relation_name, round_trip>>

vars == <<pc, rule_vars, proof_vars, merge_vars, name_vars>>

None == [none |-> TRUE]

(***************************************************************************)
(* Bounds of the model.                                                    *)
(***************************************************************************)
MaxAssumptions == 1

MaxLines == 3

MaxCheckLines == 2

MaxNameLength == 2

\* inline_proof's loop is cut off once new_proof is longer than any proof
\* that inlining a lemma of LemmaProofs that does not use itself can produce.
MaxInlinedLines == MaxLines * 3

(***************************************************************************)
(* propositions/syntax.py (the Formula collaborator).                      *)
(***************************************************************************)
VariableNames == {"p", "q"}

ConstantNames == {"T", "F"}

UnaryOperators == {"~"}

BinaryOperators == {"->", "&"}

is_variable(string) == string \in VariableNames

is_constant(string) == string \in ConstantNames

is_unary(string) == string \in UnaryOperators

is_binary(string) == string \in BinaryOperators

root(formula) == formula[1]

first(formula) == formula[2]

second(formula) == formula[3]

RECURSIVE formula_variables(_)
formula_variables(formula) ==
    IF is_variable(root(formula)) THEN {root(formula)}
    ELSE IF is_unary(root(formula)) THEN formula_variables(first(formula))
    ELSE IF is_binary(root(formula))
         THEN formula_variables(first(formula)) \cup formula_variables(second(formula))
    ELSE {}

RECURSIVE substitute_variables(_, _)
substitute_variables(formula, substitution_map) ==
    IF is_variable(root(formula))
    THEN IF root(formula) \in DOMAIN substitution_map
         THEN substitution_map[root(formula)]
         ELSE formula
    ELSE IF is_unary(root(formula))
    THEN <<root(formula), substitute_variables(first(formula), substitution_map)>>
    ELSE IF is_binary(root(formula))
    THEN <<root(formula), substitute_variables(first(formula), substitution_map),
           substitute_variables(second(formula), substitution_map)>>
    ELSE formula

(***************************************************************************)
(* InferenceRule                                                           *)
(***************************************************************************)
InferenceRule(assumptions, conclusion) ==
    [assumptions |-> assumptions, conclusion |-> conclusion]

variables(self) ==
    formula_variables(self.conclusion)
        \cup UNION {formula_variables(self.assumptions[i]) : i \in DOMAIN self.assumptions}

specialize(self, specialization_map) ==
    InferenceRule([i \in DOMAIN self.assumptions |->
                      substitute_variables(self.assumptions[i], specialization_map)],
                  substitute_variables(self.conclusion, specialization_map))

merge_keeping_second(specialization_map1, specialization_map2) ==
    IF specialization_map1 = None \/ specialization_map2 = None THEN None
    ELSE [p \in (DOMAIN specialization_map1) \cup (DOMAIN specialization_map2) |->
             IF p \in DOMAIN specialization_map2 THEN specialization_map2[p]
             ELSE specialization_map1[p]]

merge_dropping_first_only_keys(specialization_map1, specialization_map2) ==
    IF specialization_map1 = None \/ specialization_map2 = None THEN None
    ELSE IF \E p \in (DOMAIN specialization_map1) \cap (DOMAIN specialization_map2) :
               specialization_map1[p] # specialization_map2[p]
    THEN None
    ELSE specialization_map2

_merge_specialization_maps(specialization_map1, specialization_map2) ==
    IF specialization_map1 = None \/ specialization_map2 = None THEN None
    ELSE IF \E p \in (DOMAIN specialization_map1) \cap (DOMAIN specialization_map2) :
               specialization_map1[p] # specialization_map2[p]
    THEN None
    ELSE [p \in (DOMAIN specialization_map1) \cup (DOMAIN specialization_map2) |->
             IF p \in DOMAIN specialization_map2 THEN specialization_map2[p]
             ELSE specialization_map1[p]]

RECURSIVE _formula_specialization_map(_, _)
_formula_specialization_map(general_formula, specialization) ==
    IF is_constant(root(general_formula))
    THEN IF general_formula = specialization THEN <<>> ELSE None
    ELSE IF is_variable(root(general_formula))
    THEN [v \in {root(general_formula)} |-> specialization]
    ELSE IF is_unary(root(general_formula))
    THEN IF root(general_formula) = root(specialization)
         THEN _formula_specialization_map(first(general_formula), first(specialization))
         ELSE None
    ELSE IF is_binary(root(general_formula))
    THEN IF root(general_formula) = root(specialization)
         THEN _merge_specialization_maps(
                  _formula_specialization_map(first(general_formula), first(specialization)),
                  _formula_specialization_map(second(general_formula), second(specialization)))
         ELSE None
    ELSE None

RECURSIVE merge_assumption_maps(_, _, _, _)
merge_assumption_maps(self, specialization, map, i) ==
    IF i > Len(self.assumptions) THEN map
    ELSE merge_assumption_maps(self, specialization,
             _merge_specialization_maps(map,
                 _formula_specialization_map(self.assumptions[i],
                                             specialization.assumptions[i])),
             i + 1)

specialization_map_ignoring_length(self, specialization) ==
    IF Len(self.assumptions) > Len(specialization.assumptions) THEN None
    ELSE merge_assumption_maps(self, specialization,
             _formula_specialization_map(self.conclusion, specialization.conclusion), 1)

specialization_map_of_conclusion(self, specialization) ==
    IF Len(self.assumptions) # Len(specialization.assumptions) THEN None
    ELSE IF merge_assumption_maps(self, specialization,
                _formula_specialization_map(self.conclusion, specialization.conclusion), 1)
            = None
    THEN None
    ELSE _formula_specialization_map(self.conclusion, specialization.conclusion)

specialization_map(self, specialization) ==
    IF Len(self.assumptions) # Len(specialization.assumptions) THEN None
    ELSE merge_assumption_maps(self, specialization,
             _formula_specialization_map(self.conclusion, specialization.conclusion), 1)

is_specialization_of(self, general_rule) ==
    specialization_map(general_rule, self) # None

(***************************************************************************)
(* Proof and Proof.Line.  An assumption line has rule None (its            *)
(* assumptions field, None in the source, is the empty tuple here and is   *)
(* never read).  An operation that returns a boolean returns "True" or     *)
(* "False", or raises "IndexError" when a justification number lies        *)
(* outside the lines of the proof.                                         *)
(***************************************************************************)
Proof(statement, rules, lines) ==
    [statement |-> statement, rules |-> rules, lines |-> lines]

Line(formula, rule, assumptions) ==
    [formula |-> formula, rule |-> rule, assumptions |-> assumptions]

AssumptionLine(formula) == Line(formula, None, <<>>)

is_assumption(self) == self.rule = None

Bool(b) == IF b THEN "True" ELSE "False"

InRange(tuple, i) == -Len(tuple) <= i /\ i < Len(tuple)

At(tuple, i) == tuple[IF i < 0 THEN Len(tuple) + i + 1 ELSE i + 1]

Range(tuple) == {tuple[i] : i \in DOMAIN tuple}

rule_for_line_raises(self, line_number) ==
    /\ At(self.lines, line_number).rule # None
    /\ \E i \in Range(At(self.lines, line_number).assumptions) : ~InRange(self.lines, i)

rule_for_line(self, line_number) ==
    IF At(self.lines, line_number).rule = None THEN None
    ELSE InferenceRule(
             [n \in DOMAIN At(self.lines, line_number).assumptions |->
                 At(self.lines, At(self.lines, line_number).assumptions[n]).formula],
             At(self.lines, line_number).formula)

is_line_valid_allowing_self_reference(self, line_number) ==
    IF rule_for_line_raises(self, line_number) THEN "IndexError"
    ELSE IF rule_for_line(self, line_number) = None
    THEN Bool(At(self.lines, line_number).formula \in Range(self.statement.assumptions))
    ELSE IF \E i \in Range(At(self.lines, line_number).assumptions) : i > line_number
    THEN "False"
    ELSE IF At(self.lines, line_number).rule \in self.rules
    THEN Bool(is_specialization_of(rule_for_line(self, line_number),
                                   At(self.lines, line_number).rule))
    ELSE "False"

is_line_valid_pairing_rule_assumptions(self, line_number) ==
    IF rule_for_line_raises(self, line_number) THEN "IndexError"
    ELSE IF rule_for_line(self, line_number) = None
    THEN Bool(At(self.lines, line_number).formula \in Range(self.statement.assumptions))
    ELSE IF Len(At(self.lines, line_number).assumptions)
                < Len(At(self.lines, line_number).rule.assumptions)
    THEN "IndexError"
    ELSE IF \E i \in Range(At(self.lines, line_number).assumptions) : i >= line_number
    THEN "False"
    ELSE IF At(self.lines, line_number).rule \in self.rules
    THEN Bool(is_specialization_of(rule_for_line(self, line_number),
                                   At(self.lines, line_number).rule))
    ELSE "False"

is_line_valid(self, line_number) ==
    IF rule_for_line_raises(self, line_number) THEN "IndexError"
    ELSE IF rule_for_line(self, line_number) = None
    THEN Bool(At(self.lines, line_number).formula \in Range(self.statement.assumptions))
    ELSE IF \E i \in Range(At(self.lines, line_number).assumptions) : i >= line_number
    THEN "False"
    ELSE IF At(self.lines, line_number).rule \in self.rules
    THEN Bool(is_specialization_of(rule_for_line(self, line_number),
                                   At(self.lines, line_number).rule))
    ELSE "False"

RECURSIVE check_lines(_, _)
check_lines(self, i) ==
    IF i >= Len(self.lines)
    THEN Bool(At(self.lines, Len(self.lines) - 1).formula = self.statement.conclusion)
    ELSE IF is_line_valid(self, i) # "True" THEN is_line_valid(self, i)
    ELSE check_lines(self, i + 1)

is_valid_without_conclusion_check(self) ==
    IF Len(self.lines) = 0 THEN "False"
    ELSE IF \E i \in 0 .. Len(self.lines) - 1 : is_line_valid(self, i) # "True"
    THEN "False"
    ELSE "True"

is_valid(self) ==
    IF Len(self.lines) = 0 THEN "False" ELSE check_lines(self, 0)

(***************************************************************************)
(* prove_specialization, _inline_proof_once.  X_raises says that the call  *)
(* ends in an exception (a failed assert, an IndexError, a KeyError, a     *)
(* ValueError); X is the value returned otherwise.                         *)
(***************************************************************************)
prove_specialization_raises(proof, specialization) ==
    \/ is_valid(proof) # "True"
    \/ ~is_specialization_of(specialization, proof.statement)

prove_specialization_keeping_formulas(proof, specialization) ==
    Proof(specialization, proof.rules, proof.lines)

prove_specialization_by_conclusion_map(proof, specialization) ==
    LET m == _formula_specialization_map(proof.statement.conclusion,
                                         specialization.conclusion)
    IN  Proof(specialization, proof.rules,
              [i \in DOMAIN proof.lines |->
                  Line(substitute_variables(proof.lines[i].formula, m),
                       proof.lines[i].rule, proof.lines[i].assumptions)])

prove_specialization(proof, specialization) ==
    LET m == specialization_map(proof.statement, specialization)
    IN  Proof(specialization, proof.rules,
              [i \in DOMAIN proof.lines |->
                  Line(substitute_variables(proof.lines[i].formula, m),
                       proof.lines[i].rule, proof.lines[i].assumptions)])

index(tuple, x) ==
    CHOOSE i \in 0 .. Len(tuple) - 1 :
        /\ tuple[i + 1] = x
        /\ \A j \in 0 .. i - 1 : tuple[j + 1] # x

\* The loop over partial_proof.lines: the state (new_lines, subs,
\* assumptions_count) after the lines from number i on, or raised.
RECURSIVE replay_partial_proof(_, _, _, _, _, _)
replay_partial_proof(partial_proof, main_line, i, new_lines, subs, assumptions_count) ==
    IF i >= Len(partial_proof.lines)
    THEN [raised |-> FALSE, new_lines |-> new_lines, assumptions_count |-> assumptions_count]
    ELSE IF is_assumption(At(partial_proof.lines, i))
    THEN IF At(partial_proof.lines, i).formula \notin Range(partial_proof.statement.assumptions)
         THEN [raised |-> TRUE, new_lines |-> new_lines, assumptions_count |-> assumptions_count]
         ELSE replay_partial_proof(partial_proof, main_line, i + 1, new_lines,
                  [n \in DOMAIN subs \cup {i} |->
                      IF n = i
                      THEN At(main_line.assumptions,
                              index(partial_proof.statement.assumptions,
                                    At(partial_proof.lines, i).formula))
                      ELSE subs[n]],
                  assumptions_count + 1)
    ELSE IF \E j \in Range(At(partial_proof.lines, i).assumptions) : j \notin DOMAIN subs
    THEN [raised |-> TRUE, new_lines |-> new_lines, assumptions_count |-> assumptions_count]
    ELSE replay_partial_proof(partial_proof, main_line, i + 1,
             Append(new_lines,
                    Line(At(partial_proof.lines, i).formula, At(partial_proof.lines, i).rule,
                         [n \in DOMAIN At(partial_proof.lines, i).assumptions |->
                             subs[At(partial_proof.lines, i).assumptions[n]]])),
             [n \in DOMAIN subs \cup {i} |-> IF n = i THEN Len(new_lines) ELSE subs[n]],
             assumptions_count)

renumbered_tail_after_line(main_proof, line_number, offset) ==
    [n \in 1 .. Len(main_proof.lines) - (line_number + 1) |->
        LET old == main_proof.lines[line_number + 1 + n]
        IN  IF is_assumption(old) THEN old
            ELSE Line(old.formula, old.rule,
                      [a \in DOMAIN old.assumptions |->
                          IF old.assumptions[a] <= line_number THEN old.assumptions[a]
                          ELSE old.assumptions[a] + offset])]

\* The loop over main_proof.lines[line_number + 1:].
renumbered_tail(main_proof, line_number, offset) ==
    [n \in 1 .. Len(main_proof.lines) - (line_number + 1) |->
        LET old == main_proof.lines[line_number + 1 + n]
        IN  IF is_assumption(old) THEN old
            ELSE Line(old.formula, old.rule,
                      [a \in DOMAIN old.assumptions |->
                          IF old.assumptions[a] < line_number THEN old.assumptions[a]
                          ELSE old.assumptions[a] + offset])]

_inline_proof_once_raises_unless_specialization(main_proof, line_number, lemma_proof) ==
    IF is_valid(main_proof) # "True" THEN TRUE
    ELSE IF ~(line_number < Len(main_proof.lines)) THEN TRUE
    ELSE IF main_proof.lines[line_number + 1].rule = None THEN TRUE
    ELSE IF ~is_specialization_of(main_proof.lines[line_number + 1].rule,
                                  lemma_proof.statement) THEN TRUE
    ELSE IF is_valid(lemma_proof) # "True" THEN TRUE
    ELSE IF prove_specialization_raises(lemma_proof, rule_for_line(main_proof, line_number))
    THEN TRUE
    ELSE replay_partial_proof(
             prove_specialization(lemma_proof, rule_for_line(main_proof, line_number)),
             main_proof.lines[line_number + 1], 0,
             SubSeq(main_proof.lines, 1, line_number), <<>>, 0).raised

_inline_proof_once_raises(main_proof, line_number, lemma_proof) ==
    IF is_valid(main_proof) # "True" THEN TRUE
    ELSE IF ~(line_number < Len(main_proof.lines)) THEN TRUE
    ELSE IF main_proof.lines[line_number + 1].rule # lemma_proof.statement THEN TRUE
    ELSE IF is_valid(lemma_proof) # "True" THEN TRUE
    ELSE IF prove_specialization_raises(lemma_proof, rule_for_line(main_proof, line_number))
    THEN TRUE
    ELSE replay_partial_proof(
             prove_specialization(lemma_proof, rule_for_line(main_proof, line_number)),
             main_proof.lines[line_number + 1], 0,
             SubSeq(main_proof.lines, 1, line_number), <<>>, 0).raised

_inline_proof_once(main_proof, line_number, lemma_proof) ==
    LET main_line == main_proof.lines[line_number + 1]
        partial_proof ==
            prove_specialization(lemma_proof, rule_for_line(main_proof, line_number))
        replayed == replay_partial_proof(partial_proof, main_line, 0,
                        SubSeq(main_proof.lines, 1, line_number), <<>>, 0)
        offset == Len(partial_proof.lines) - replayed.assumptions_count - 1
    IN  Proof(main_proof.statement, main_proof.rules \cup lemma_proof.rules,
              replayed.new_lines \o renumbered_tail(main_proof, line_number, offset))

(***************************************************************************)
(* Inputs of the rule-level operations: formulas of depth at most one over *)
(* two variables and a constant, and a few of depth two.                   *)
(***************************************************************************)
Atoms == {<<"p">>, <<"q">>, <<"T">>}

ConclusionFormulas ==
    Atoms \cup {<<"F">>}
          \cup {<<"~", a>> : a \in Atoms}
          \cup {<<"->", a, b>> : a \in Atoms, b \in Atoms}
          \cup {<<"&", <<"p">>, b>> : b \in Atoms}
          \cup {<<"->", <<"~", a>>, <<"p">> >> : a \in Atoms}

AssumptionFormulas == Atoms \cup {<<"~", <<"p">> >>}

RECURSIVE subformulas(_)
subformulas(formula) ==
    {formula} \cup
    (IF Len(formula) = 1 THEN {}
     ELSE IF Len(formula) = 2 THEN subformulas(formula[2])
     ELSE subformulas(formula[2]) \cup subformulas(formula[3]))

rule_subformulas(rule) ==
    subformulas(rule.conclusion)
        \cup UNION {subformulas(rule.assumptions[i]) : i \in DOMAIN rule.assumptions}

(***************************************************************************)
(* The rule-level specification: two rules are built, then                 *)
(* specialization_map, specialize and is_specialization_of are applied.    *)
(***************************************************************************)
RuleInit ==
    /\ pc = "rules"
    /\ general \in {InferenceRule(<<>>, c) : c \in ConclusionFormulas}
    /\ candidate \in {InferenceRule(<<>>, c) : c \in ConclusionFormulas}
    /\ sm = None
    /\ specialized = None
    /\ verdict = FALSE
    /\ main = None /\ lemma = None /\ target = None /\ lineno = 0
    /\ new_proof = None /\ result = None /\ outcome = "none"
    /\ map1 = None /\ map2 = None /\ merged = None
    /\ function_name = None /\ relation_name = None /\ round_trip = None

AddGeneralAssumption ==
    /\ pc = "rules"
    /\ Len(general.assumptions) < MaxAssumptions
    /\ \E f \in AssumptionFormulas :
           general' = InferenceRule(Append(general.assumptions, f), general.conclusion)
    /\ UNCHANGED <<pc, candidate, sm, specialized, verdict, proof_vars, merge_vars, name_vars>>

AddCandidateAssumption ==
    /\ pc = "rules"
    /\ Len(candidate.assumptions) < MaxAssumptions
    /\ \E f \in AssumptionFormulas :
           candidate' = InferenceRule(Append(candidate.assumptions, f), candidate.conclusion)
    /\ UNCHANGED <<pc, general, sm, specialized, verdict, proof_vars, merge_vars, name_vars>>

CallSpecializationMap ==
    /\ pc = "rules"
    /\ sm' = specialization_map(general, candidate)
    /\ pc' = "specialization_map"
    /\ UNCHANGED <<general, candidate, specialized, verdict, proof_vars, merge_vars, name_vars>>

CallSpecialize ==
    /\ pc = "specialization_map"
    /\ sm # None
    /\ specialized' = specialize(general, sm)
    /\ pc' = "specialize"
    /\ UNCHANGED <<general, candidate, sm, verdict, proof_vars, merge_vars, name_vars>>

CallIsSpecializationOf ==
    /\ pc = "rules"
    /\ verdict' = is_specialization_of(candidate, general)
    /\ pc' = "is_specialization_of"
    /\ UNCHANGED <<general, candidate, sm, specialized, proof_vars, merge_vars, name_vars>>

RuleNext ==
    \/ AddGeneralAssumption
    \/ AddCandidateAssumption
    \/ CallSpecializationMap
    \/ CallSpecialize
    \/ CallIsSpecializationOf

SpecRule == RuleInit /\ [][RuleNext]_vars

(***************************************************************************)
(* The map-merging specification: _merge_specialization_maps is given any  *)
(* two of the maps over the variable names into MapValues, or None.        *)
(***************************************************************************)
MapValues == {<<"p">>, <<"q">>, <<"~", <<"p">> >>}

SpecializationMaps == UNION {[K -> MapValues] : K \in SUBSET VariableNames}

MergeInit ==
    /\ pc = "maps"
    /\ map1 \in SpecializationMaps \cup {None}
    /\ map2 \in SpecializationMaps \cup {None}
    /\ merged = None
    /\ general = None /\ candidate = None /\ sm = None
    /\ specialized = None /\ verdict = FALSE
    /\ main = None /\ lemma = None /\ target = None /\ lineno = 0
    /\ new_proof = None /\ result = None /\ outcome = "none"
    /\ function_name = None /\ relation_name = None /\ round_trip = None

CallMergeSpecializationMaps ==
    /\ pc = "maps"
    /\ merged' = _merge_specialization_maps(map1, map2)
    /\ pc' = "_merge_specialization_maps"
    /\ UNCHANGED <<map1, map2, rule_vars, proof_vars, name_vars>>

MergeNext == CallMergeSpecializationMaps

SpecMerge == MergeInit /\ [][MergeNext]_vars

(***************************************************************************)
(* predicates/functions.py: the encoding of function names as relation     *)
(* names.  A name is a tuple of characters; ord gives the code of a        *)
(* character, and str.upper and str.lower move a letter between the        *)
(* lowercase codes 97..122 and the uppercase codes 65..90.                 *)
(***************************************************************************)
ord ==
    [c \in {"0", "A", "F", "L", "P", "S", "T", "U", "X", "_",
            "a", "f", "l", "p", "s", "t", "u", "x"} |->
        CASE c = "0" -> 48 [] c = "_" -> 95
          [] c = "A" -> 65 [] c = "F" -> 70 [] c = "L" -> 76 [] c = "P" -> 80
          [] c = "S" -> 83 [] c = "T" -> 84 [] c = "U" -> 85 [] c = "X" -> 88
          [] c = "a" -> 97 [] c = "f" -> 102 [] c = "l" -> 108 [] c = "p" -> 112
          [] c = "s" -> 115 [] c = "t" -> 116 [] c = "u" -> 117 [] c = "x" -> 120]

chr(code) == CHOOSE c \in DOMAIN ord : ord[c] = code

isalnum(string) ==
    /\ Len(string) > 0
    /\ \A i \in DOMAIN string :
           \/ ord[string[i]] \in 48 .. 57
           \/ ord[string[i]] \in 65 .. 90
           \/ ord[string[i]] \in 97 .. 122

upper(string) ==
    [i \in DOMAIN string |->
        IF ord[string[i]] \in 97 .. 122 THEN chr(ord[string[i]] - 32) ELSE string[i]]

lower(string) ==
    [i \in DOMAIN string |->
        IF ord[string[i]] \in 65 .. 90 THEN chr(ord[string[i]] + 32) ELSE string[i]]

is_function(string) ==
    /\ Len(string) > 0
    /\ ord[string[1]] >= ord["f"]
    /\ ord[string[1]] <= ord["t"]
    /\ isalnum(string)

is_relation(string) ==
    /\ Len(string) > 0
    /\ ord[string[1]] >= ord["F"]
    /\ ord[string[1]] <= ord["T"]
    /\ isalnum(string)

function_name_to_relation_name_upper(function) == upper(function)

function_name_to_relation_name(function) ==
    upper(SubSeq(function, 1, 1)) \o SubSeq(function, 2, Len(function))

relation_name_to_function_name(relation) ==
    lower(SubSeq(relation, 1, 1)) \o SubSeq(relation, 2, Len(relation))

(***************************************************************************)
(* The name-encoding specification: a name of up to MaxNameLength          *)
(* characters, or the name plus, is given to                               *)
(* function_name_to_relation_name and what it returns to                   *)
(* relation_name_to_function_name.                                         *)
(***************************************************************************)
NameCharacters == {"0", "A", "F", "P", "T", "X", "_", "a", "f", "p", "t", "x"}

Names ==
    UNION {[1 .. n -> NameCharacters] : n \in 0 .. MaxNameLength}
        \cup {<<"p", "l", "u", "s">>}

NameInit ==
    /\ pc = "names"
    /\ function_name \in Names
    /\ relation_name = None /\ round_trip = None
    /\ outcome = "none"
    /\ general = None /\ candidate = None /\ sm = None
    /\ specialized = None /\ verdict = FALSE
    /\ main = None /\ lemma = None /\ target = None /\ lineno = 0
    /\ new_proof = None /\ result = None
    /\ map1 = None /\ map2 = None /\ merged = None

CallFunctionNameToRelationName ==
    /\ pc = "names"
    /\ IF ~is_function(function_name)
       THEN outcome' = "raised" /\ relation_name' = relation_name
       ELSE /\ outcome' = "returned"
            /\ relation_name' = function_name_to_relation_name(function_name)
    /\ pc' = "function_name_to_relation_name"
    /\ UNCHANGED <<function_name, round_trip, rule_vars, merge_vars,
                   main, lemma, target, lineno, new_proof, result>>

CallRelationNameToFunctionName ==
    /\ pc = "function_name_to_relation_name"
    /\ outcome = "returned"
    /\ IF ~is_relation(relation_name)
       THEN outcome' = "raised" /\ round_trip' = round_trip
       ELSE /\ outcome' = "returned"
            /\ round_trip' = relation_name_to_function_name(relation_name)
    /\ pc' = "relation_name_to_function_name"
    /\ UNCHANGED <<function_name, relation_name, rule_vars, merge_vars,
                   main, lemma, target, lineno, new_proof, result>>

NameNext ==
    \/ CallFunctionNameToRelationName
    \/ CallRelationNameToFunctionName

SpecNames == NameInit /\ [][NameNext]_vars

(***************************************************************************)
(* Inputs of the proof-level operations.  The lemma is written in p and    *)
(* the main proof in q; the rules are ~-introduction, its double,          *)
(* repetition, and ~-introduction on the second of two assumptions.        *)
(***************************************************************************)
P == <<"p">>

Q == <<"q">>

Not(formula) == <<"~", formula>>

Negate == InferenceRule(<<P>>, Not(P))

DoubleNegate == InferenceRule(<<P>>, Not(Not(P)))

Repeat == InferenceRule(<<P>>, P)

NegateSecond == InferenceRule(<<P, Q>>, Not(Q))

\* A specialization of Negate.
NegateNegated == InferenceRule(<<Not(P)>>, Not(Not(P)))

LineFormulas == {P, Not(P), Not(Not(P)), Q, Not(Q), Not(Not(Q)), Not(Not(Not(Q)))}

\* The lemma proofs.  Of DoubleNegate: in two steps from Negate; the same
\* with its assumption written twice; by DoubleNegate itself, once and
\* twice.  Of Repeat: the assumption alone; the assumption after a step by
\* Negate.  Of Negate: by Negate.  Of NegateSecond: from Negate, with the
\* assumptions written in the order of the statement and in the other order.
\* Of NegateNegated: by Negate.
LemmaProofs ==
    {Proof(DoubleNegate, {Negate},
           <<AssumptionLine(P), Line(Not(P), Negate, <<0>>),
             Line(Not(Not(P)), Negate, <<1>>)>>),
     Proof(DoubleNegate, {Negate},
           <<AssumptionLine(P), AssumptionLine(P), Line(Not(P), Negate, <<1>>),
             Line(Not(Not(P)), Negate, <<2>>)>>),
     Proof(DoubleNegate, {Negate, DoubleNegate},
           <<AssumptionLine(P), Line(Not(Not(P)), DoubleNegate, <<0>>)>>),
     Proof(DoubleNegate, {Negate, DoubleNegate},
           <<AssumptionLine(P), Line(Not(Not(P)), DoubleNegate, <<0>>),
             Line(Not(Not(P)), DoubleNegate, <<0>>)>>),
     Proof(Repeat, {}, <<AssumptionLine(P)>>),
     Proof(Repeat, {Negate},
           <<AssumptionLine(P), Line(Not(P), Negate, <<0>>), AssumptionLine(P)>>),
     Proof(Negate, {Negate}, <<AssumptionLine(P), Line(Not(P), Negate, <<0>>)>>),
     Proof(NegateNegated, {Negate},
           <<AssumptionLine(Not(P)), Line(Not(Not(P)), Negate, <<0>>)>>),
     Proof(NegateSecond, {Negate},
           <<AssumptionLine(P), AssumptionLine(Q), Line(Not(Q), Negate, <<1>>)>>),
     Proof(NegateSecond, {Negate},
           <<AssumptionLine(Q), AssumptionLine(P), Line(Not(Q), Negate, <<0>>)>>)}

MainInputs ==
    {Proof(InferenceRule(<<Q>>, Not(Not(Q))), {Negate, DoubleNegate}, <<>>),
     Proof(InferenceRule(<<Q>>, Not(Not(Q))), {DoubleNegate}, <<>>),
     Proof(InferenceRule(<<Q>>, Not(Not(Not(Q)))), {Negate, DoubleNegate}, <<>>),
     Proof(InferenceRule(<<Q>>, Not(Not(Q))), {Negate, NegateSecond}, <<>>),
     Proof(InferenceRule(<<Q>>, Not(Not(Q))), {Negate, NegateNegated}, <<>>),
     Proof(InferenceRule(<<Q>>, Q), {Negate, Repeat}, <<>>),
     Proof(InferenceRule(<<Q>>, Q), {Repeat}, <<>>),
     Proof(InferenceRule(<<Q>>, Q), {}, <<>>),
     Proof(InferenceRule(<<P, Q>>, Not(Q)), {Negate}, <<>>)}

JustificationNumbers == 0 .. MaxLines - 1

CandidateLines(proof) ==
    LET formulas == {f \in LineFormulas :
                        formula_variables(f) \subseteq variables(proof.statement)}
    IN  {AssumptionLine(f) : f \in formulas}
            \cup UNION {{Line(f, r, j) : f \in formulas,
                                         j \in [DOMAIN r.assumptions -> JustificationNumbers]} :
                        r \in proof.rules}

TargetMaps ==
    {<<>>} \cup [{"q"} -> {P, Not(Q), <<"T">>}]
           \cup {[v \in {"p", "q"} |-> IF v = "p" THEN Q ELSE P]}

Targets(statement) ==
    {specialize(statement, m) : m \in TargetMaps}
        \cup {InferenceRule(<<>>, statement.conclusion)}

(***************************************************************************)
(* The proof-level specification: a lemma proof is given and a main proof  *)
(* is written line by line, each line valid as it is written; then one of  *)
(* prove_specialization, _inline_proof_once and inline_proof is called on  *)
(* valid proofs, as their docstrings require.  inline_proof runs one       *)
(* iteration of its while loop per step.                                   *)
(***************************************************************************)
Init ==
    /\ pc = "main"
    /\ lemma \in LemmaProofs
    /\ main \in MainInputs
    /\ target = None /\ lineno = 0
    /\ new_proof = None /\ result = None /\ outcome = "none"
    /\ general = None /\ candidate = None /\ sm = None
    /\ specialized = None /\ verdict = FALSE
    /\ map1 = None /\ map2 = None /\ merged = None
    /\ function_name = None /\ relation_name = None /\ round_trip = None

Extended(proof, new_line) ==
    Proof(proof.statement, proof.rules, Append(proof.lines, new_line))

AddMainLine ==
    /\ pc = "main"
    /\ Len(main.lines) < MaxLines
    /\ \E l \in CandidateLines(main) :
           /\ is_line_valid(Extended(main, l), Len(main.lines)) = "True"
           /\ main' = Extended(main, l)
    /\ UNCHANGED <<pc, lemma, target, lineno, new_proof, result, outcome, rule_vars, merge_vars, name_vars>>

CallProveSpecialization ==
    /\ pc = "main"
    /\ is_valid(main) = "True"
    /\ \E s \in Targets(main.statement) :
           /\ target' = s
           /\ IF prove_specialization_raises(main, s)
              THEN outcome' = "raised" /\ result' = result
              ELSE outcome' = "returned" /\ result' = prove_specialization(main, s)
    /\ pc' = "prove_specialization"
    /\ UNCHANGED <<main, lemma, lineno, new_proof, rule_vars, merge_vars, name_vars>>

CallInlineProofOnce ==
    /\ pc = "main"
    /\ is_valid(main) = "True"
    /\ \E n \in 0 .. Len(main.lines) :
           /\ lineno' = n
           /\ IF _inline_proof_once_raises(main, n, lemma)
              THEN outcome' = "raised" /\ result' = result
              ELSE outcome' = "returned" /\ result' = _inline_proof_once(main, n, lemma)
    /\ pc' = "_inline_proof_once"
    /\ UNCHANGED <<main, lemma, target, new_proof, rule_vars, merge_vars, name_vars>>

\* inline_proof up to the while loop: the asserts, new_proof = main_proof.
CallInlineProof ==
    /\ pc = "main"
    /\ is_valid(main) = "True"
    /\ IF is_valid(main) # "True" \/ is_valid(lemma) # "True"
       THEN outcome' = "raised" /\ pc' = "inline_proof_raised" /\ new_proof' = new_proof
       ELSE outcome' = outcome /\ pc' = "inline_proof" /\ new_proof' = main
    /\ UNCHANGED <<main, lemma, target, lineno, result, rule_vars, merge_vars, name_vars>>

LemmaUsesBeforeLast(proof, lemma_proof) ==
    {i \in 0 .. Len(proof.lines) - 2 :
        /\ ~is_assumption(At(proof.lines, i))
        /\ At(proof.lines, i).rule = lemma_proof.statement}

LemmaUses(proof, lemma_proof) ==
    {i \in 0 .. Len(proof.lines) - 1 :
        /\ ~is_assumption(At(proof.lines, i))
        /\ At(proof.lines, i).rule = lemma_proof.statement}

FirstLemmaUse(proof, lemma_proof) ==
    CHOOSE i \in LemmaUses(proof, lemma_proof) :
        \A j \in LemmaUses(proof, lemma_proof) : i <= j

\* One iteration of the while loop that finds a line to inline.
InlineProofSplice ==
    /\ pc = "inline_proof"
    /\ LemmaUses(new_proof, lemma) # {}
    /\ Len(new_proof.lines) <= MaxInlinedLines
    /\ IF _inline_proof_once_raises(new_proof, FirstLemmaUse(new_proof, lemma), lemma)
       THEN outcome' = "raised" /\ pc' = "inline_proof_raised" /\ new_proof' = new_proof
       ELSE /\ outcome' = outcome /\ pc' = pc
            /\ new_proof' = _inline_proof_once(new_proof, FirstLemmaUse(new_proof, lemma), lemma)
    /\ UNCHANGED <<main, lemma, target, lineno, result, rule_vars, merge_vars, name_vars>>

\* The iteration that finds none, and the return.
InlineProofReturn ==
    /\ pc = "inline_proof"
    /\ LemmaUses(new_proof, lemma) = {}
    /\ result' = Proof(new_proof.statement, new_proof.rules \ {lemma.statement},
                       new_proof.lines)
    /\ outcome' = "returned"
    /\ pc' = "inline_proof_returned"
    /\ UNCHANGED <<main, lemma, target, lineno, new_proof, rule_vars, merge_vars, name_vars>>

Next ==
    \/ AddMainLine
    \/ CallProveSpecialization
    \/ CallInlineProofOnce
    \/ CallInlineProof
    \/ InlineProofSplice
    \/ InlineProofReturn

Spec == Init /\ [][Next]_vars

(***************************************************************************)
(* The validity-checking specification: a proof is written line by line    *)
(* with any lines at all (rules that are not allowed, justification        *)
(* numbers of later lines, of the line itself, negative, or outside the    *)
(* proof, the wrong number of them), then is_line_valid or is_valid is     *)
(* called on it.                                                           *)
(***************************************************************************)
RepeatQ == InferenceRule(<<Q>>, Q)

CheckInputs ==
    {Proof(InferenceRule(<<Q>>, Not(Q)), {Negate}, <<>>),
     Proof(InferenceRule(<<Q>>, Q), {Negate, Repeat}, <<>>),
     Proof(InferenceRule(<<>>, Not(Q)), {Negate, Repeat}, <<>>)}

CheckJustifications ==
    {<<>>, <<0, 0>>} \cup {<<j>> : j \in -1 .. MaxCheckLines - 1}

CheckLines ==
    {AssumptionLine(f) : f \in {Q, Not(Q)}}
        \cup {Line(f, r, j) : f \in {Q, Not(Q)}, r \in {Negate, Repeat, RepeatQ},
                              j \in CheckJustifications}

CheckInit ==
    /\ pc = "check"
    /\ main \in CheckInputs
    /\ lemma = None /\ target = None /\ lineno = 0
    /\ new_proof = None /\ result = None /\ outcome = "none"
    /\ general = None /\ candidate = None /\ sm = None
    /\ specialized = None /\ verdict = FALSE
    /\ map1 = None /\ map2 = None /\ merged = None
    /\ function_name = None /\ relation_name = None /\ round_trip = None

WriteLine ==
    /\ pc = "check"
    /\ Len(main.lines) < MaxCheckLines
    /\ \E l \in CheckLines : main' = Extended(main, l)
    /\ UNCHANGED <<pc, lemma, target, lineno, new_proof, result, outcome, rule_vars, merge_vars, name_vars>>

CallIsLineValid ==
    /\ pc = "check"
    /\ \E n \in 0 .. Len(main.lines) - 1 :
           /\ lineno' = n
           /\ IF is_line_valid(main, n) = "IndexError"
              THEN outcome' = "raised" /\ result' = result
              ELSE outcome' = "returned" /\ result' = is_line_valid(main, n)
    /\ pc' = "is_line_valid"
    /\ UNCHANGED <<main, lemma, target, new_proof, rule_vars, merge_vars, name_vars>>

CallIsValid ==
    /\ pc = "check"
    /\ IF is_valid(main) = "IndexError"
       THEN outcome' = "raised" /\ result' = result
       ELSE outcome' = "returned" /\ result' = is_valid(main)
    /\ pc' = "is_valid"
    /\ UNCHANGED <<main, lemma, target, lineno, new_proof, rule_vars, merge_vars, name_vars>>

CheckNext ==
    \/ WriteLine
    \/ CallIsLineValid
    \/ CallIsValid

SpecCheck == CheckInit /\ [][CheckNext]_vars

(***************************************************************************)
(* C1: for a valid proof main and a specialization target of its           *)
(* statement, prove_specialization(main, target) returns a proof that is   *)
(* valid and whose statement is target.                                    *)
(***************************************************************************)
C1_ProveSpecializationValid ==
    (pc = "prove_specialization" /\ is_specialization_of(target, main.statement))
        => /\ outcome = "returned"
           /\ is_valid(result) = "True"
           /\ result.statement = target

C1_Witness ==
    /\ pc = "prove_specialization"
    /\ outcome = "returned"
    /\ target # main.statement
    /\ Len(main.lines) = MaxLines
    /\ \E i \in DOMAIN main.lines : main.lines[i].rule = DoubleNegate

(***************************************************************************)
(* C2: for a valid proof main with at least one line whose rule is the     *)
(* statement of the valid proof lemma, inline_proof(main, lemma) returns a *)
(* valid proof of main's statement whose rules do not hold lemma's         *)
(* statement.                                                              *)
(***************************************************************************)
C2_InlineProofValid ==
    (pc = "inline_proof_returned" /\ LemmaUses(main, lemma) # {})
        => /\ is_valid(result) = "True"
           /\ result.statement = main.statement
           /\ lemma.statement \notin result.rules

(***************************************************************************)
(* C3: for a valid proof main, a line number lineno whose line has the     *)
(* statement of the valid proof lemma as its rule, whatever the lines of   *)
(* lemma, _inline_proof_once(main, lineno, lemma) returns a valid proof of *)
(* main's statement.                                                       *)
(***************************************************************************)
C3_InlineProofOnceValid ==
    (/\ pc = "_inline_proof_once"
     /\ lineno < Len(main.lines)
     /\ At(main.lines, lineno).rule = lemma.statement)
        => /\ outcome = "returned"
           /\ is_valid(result) = "True"
           /\ result.statement = main.statement

(***************************************************************************)
(* C4: the rules of inline_proof(main, lemma) are the rules of main and of *)
(* lemma without lemma's statement, however many lines of main (zero or    *)
(* more) use lemma's statement.  (Stated for a lemma that proves one of    *)
(* the rules of main, as inline_proof's docstring requires.)               *)
(***************************************************************************)
C4_InlineProofRules ==
    (pc = "inline_proof_returned" /\ lemma.statement \in main.rules)
        => result.rules = (main.rules \cup lemma.rules) \ {lemma.statement}

(***************************************************************************)
(* C5: when inline_proof(main, lemma) returns, no line of the returned     *)
(* proof has lemma's statement as its rule.                                *)
(***************************************************************************)
C5_NoLemmaUseLeft ==
    pc = "inline_proof_returned"
        => \A i \in DOMAIN result.lines : result.lines[i].rule # lemma.statement

C5_Witness ==
    /\ pc = "inline_proof_returned"
    /\ Cardinality({i \in DOMAIN main.lines : main.lines[i].rule = lemma.statement}) = 2
    /\ Len(result.lines) > Len(main.lines)

(***************************************************************************)
(* C6: _inline_proof_once(main, lineno, lemma) returns a proof with        *)
(* exactly one line fewer whose rule is lemma's statement than main has,   *)
(* for every valid main and every valid lemma.                             *)
(***************************************************************************)
Uses(proof, rule) == Cardinality({i \in DOMAIN proof.lines : proof.lines[i].rule = rule})

C6_OneUseLess ==
    (pc = "_inline_proof_once" /\ outcome = "returned")
        => Uses(result, lemma.statement) = Uses(main, lemma.statement) - 1

(***************************************************************************)
(* C7: is_valid returns true exactly when the proof has at least one line, *)
(* is_line_valid is true of every line, and the formula of the last line   *)
(* is the conclusion of the statement; so it is false of the proof with no *)
(* line, of a proof whose last formula is not the conclusion, and of a     *)
(* proof with a justification number that is not of an earlier line.       *)
(***************************************************************************)
C7_IsValidIff ==
    (pc = "is_valid" /\ outcome = "returned")
        => /\ result \in {"True", "False"}
           /\ (result = "True") <=>
                  /\ Len(main.lines) >= 1
                  /\ \A i \in 0 .. Len(main.lines) - 1 : is_line_valid(main, i) = "True"
                  /\ main.lines[Len(main.lines)].formula = main.statement.conclusion
           /\ Len(main.lines) = 0 => result = "False"
           /\ (\E i \in DOMAIN main.lines :
                  \E j \in Range(main.lines[i].assumptions) : j >= i - 1) => result = "False"

C7_Witness ==
    /\ pc = "is_valid"
    /\ outcome = "returned"
    /\ result = "True"
    /\ Len(main.lines) = MaxCheckLines
    /\ main.lines[Len(main.lines)].rule = Negate

(***************************************************************************)
(* C8: is_line_valid(lineno) returns true exactly when line lineno is an   *)
(* assumption line whose formula is one of the statement's assumptions, or *)
(* a line with a rule such that every justification number is less than    *)
(* lineno, the rule is one of the proof's rules (the very rule, not one it *)
(* specializes), and rule_for_line(lineno) is a specialization of it; and  *)
(* false otherwise.                                                        *)
(***************************************************************************)
C8_IsLineValidIff ==
    (pc = "is_line_valid" /\ outcome = "returned")
        => /\ result \in {"True", "False"}
           /\ (result = "True") <=>
                  LET checked == main.lines[lineno + 1]
                  IN  \/ /\ checked.rule = None
                         /\ \E a \in DOMAIN main.statement.assumptions :
                                main.statement.assumptions[a] = checked.formula
                      \/ /\ checked.rule # None
                         /\ \A a \in DOMAIN checked.assumptions :
                                checked.assumptions[a] < lineno
                         /\ \E r \in main.rules : r = checked.rule
                         /\ is_specialization_of(rule_for_line(main, lineno), checked.rule)

C8_Witness ==
    /\ pc = "is_line_valid"
    /\ outcome = "returned"
    /\ result = "True"
    /\ lineno = 1
    /\ main.lines[2].rule = Negate
    /\ main.lines[2].assumptions = <<0>>

(***************************************************************************)
(* C9: round trip.  Whenever general.specialization_map(candidate) returned*)
(* a map (not None), general.specialize of that map equals candidate.      *)
(***************************************************************************)
C9_RoundTrip ==
    pc = "specialize" => specialized = candidate

C9_Witness ==
    /\ pc = "specialize"
    /\ Len(general.assumptions) >= 1
    /\ DOMAIN sm = {"p", "q"}
    /\ general # candidate

(***************************************************************************)
(* C10: specialization_map returns None, and is_specialization_of returns  *)
(* false, exactly when no map m from variable names to formulas has        *)
(* general.specialize(m) = candidate.  A map that works binds each         *)
(* variable of general to a subformula of candidate, so those are the maps *)
(* searched.                                                               *)
(***************************************************************************)
SomeMapSpecializes(rule, wanted) ==
    \E m \in [variables(rule) -> rule_subformulas(wanted)] : specialize(rule, m) = wanted

C10_NoneIffNoMap ==
    /\ pc = "specialization_map" => ((sm = None) <=> ~SomeMapSpecializes(general, candidate))
    /\ pc = "is_specialization_of" => (verdict <=> SomeMapSpecializes(general, candidate))

C10_Witness ==
    /\ pc = "specialization_map"
    /\ sm = None
    /\ Len(general.assumptions) = Len(candidate.assumptions)
    /\ general.conclusion = <<"->", <<"p">>, <<"p">> >>
    /\ candidate.conclusion = <<"->", <<"p">>, <<"q">> >>
(***************************************************************************)
(* C11: _merge_specialization_maps(map1, map2) returns a map exactly when  *)
(* neither map is None and the two agree on every key they share; the map  *)
(* returned has the keys of either map and no other, each bound as it is   *)
(* bound there; otherwise None is returned.                                *)
(***************************************************************************)
C11_MergeIsUnion ==
    pc = "_merge_specialization_maps"
        => LET agree == /\ map1 # None
                        /\ map2 # None
                        /\ \A v \in (DOMAIN map1) \cap (DOMAIN map2) : map1[v] = map2[v]
           IN  /\ (merged # None) <=> agree
               /\ (merged # None) =>
                      /\ DOMAIN merged = (DOMAIN map1) \cup (DOMAIN map2)
                      /\ \A v \in DOMAIN map1 : merged[v] = map1[v]
                      /\ \A v \in DOMAIN map2 : merged[v] = map2[v]

C11_Witness ==
    /\ pc = "_merge_specialization_maps"
    /\ merged # None
    /\ (DOMAIN map1) \cap (DOMAIN map2) # {}
    /\ (DOMAIN map1) \ (DOMAIN map2) # {}

(***************************************************************************)
(* C12: on a proof all of whose justification numbers are numbers of lines *)
(* of the proof, however malformed otherwise (a line that refers to itself *)
(* or to a later line, a rule that is not allowed, the wrong number of     *)
(* justifications, the wrong last formula), is_line_valid of every line    *)
(* and is_valid return, and return a boolean.                              *)
(***************************************************************************)
WithinLineCount(proof) ==
    \A i \in DOMAIN proof.lines :
        \A j \in Range(proof.lines[i].assumptions) : InRange(proof.lines, j)

C12_NoFault ==
    (pc \in {"is_line_valid", "is_valid"} /\ WithinLineCount(main))
        => /\ outcome = "returned"
           /\ result \in {"True", "False"}

C12_Witness ==
    /\ pc = "is_line_valid"
    /\ WithinLineCount(main)
    /\ outcome = "returned"
    /\ lineno = 1
    /\ main.lines[1].assumptions = <<1>>
    /\ main.lines[2].rule = RepeatQ
    /\ main.lines[2].assumptions = <<>>

(***************************************************************************)
(* C13: _inline_proof_once(main, lineno, lemma) raises, and returns no     *)
(* proof, whenever the rule of line lineno of main is not lemma's          *)
(* statement: when the line is an assumption line, and when its rule is a  *)
(* specialization or a generalization of lemma's statement and not equal   *)
(* to it.                                                                  *)
(***************************************************************************)
C13_RaisesOnOtherRule ==
    (/\ pc = "_inline_proof_once"
     /\ lineno < Len(main.lines)
     /\ main.lines[lineno + 1].rule # lemma.statement)
        => /\ outcome = "raised"
           /\ result = None

C13_Witness ==
    /\ pc = "_inline_proof_once"
    /\ outcome = "raised"
    /\ lineno < Len(main.lines)
    /\ main.lines[lineno + 1].rule = NegateNegated
    /\ lemma.statement = Negate

(***************************************************************************)
(* C14: for every valid function name, function_name_to_relation_name      *)
(* returns the name with its first letter capitalized (Plus for plus) and  *)
(* the other characters as they were, which is a valid relation name, and  *)
(* relation_name_to_function_name returns the function name from it.       *)
(***************************************************************************)
C14_NameRoundTrip ==
    (pc \in {"function_name_to_relation_name", "relation_name_to_function_name"}
         /\ is_function(function_name))
        => /\ Len(relation_name) = Len(function_name)
           /\ ord[relation_name[1]] \in 65 .. 90
           /\ ord[relation_name[1]] + 32 = ord[function_name[1]]
           /\ \A i \in 2 .. Len(function_name) : relation_name[i] = function_name[i]
           /\ is_relation(relation_name)
           /\ function_name = <<"p", "l", "u", "s">> => relation_name = <<"P", "l", "u", "s">>
           /\ pc = "relation_name_to_function_name"
                  => outcome = "returned" /\ round_trip = function_name

C14_Witness ==
    /\ pc = "relation_name_to_function_name"
    /\ outcome = "returned"
    /\ function_name = <<"p", "l", "u", "s">>
    /\ relation_name = <<"P", "l", "u", "s">>
    /\ round_trip = function_name

(***************************************************************************)
(* C15: in a proof of which is_valid returns true, every justification     *)
(* number of every line with a rule designates an earlier line: the        *)
(* formula rule_for_line takes for it is the formula of one of the lines   *)
(* before that line.  Stated for every integer a justification tuple can   *)
(* hold, the negative ones included.                                       *)
(***************************************************************************)
C15_JustifiedByEarlierLines ==
    (pc = "is_valid" /\ outcome = "returned" /\ result = "True")
        => \A i \in 0 .. Len(main.lines) - 1 :
               ~is_assumption(At(main.lines, i))
                   => \A n \in DOMAIN rule_for_line(main, i).assumptions :
                          \E e \in 0 .. i - 1 :
                              rule_for_line(main, i).assumptions[n] = At(main.lines, e).formula

(***************************************************************************)
(* C16: the lines of _inline_proof_once(main, lineno, lemma), with d the   *)
(* number of lines of lemma that have a rule and offset = d - 1: there are *)
(* Len(main.lines) + offset of them; the first lineno are those of main;   *)
(* the next d are the lines with a rule of the specialized lemma proof, in *)
(* order, a justification by an assumption line of the lemma replaced by a *)
(* justification of line lineno of main for that assumption, and one by a  *)
(* line with a rule by the number of the copy of that line; the others are *)
(* the lines of main after lineno, in order, an assumption line as it was, *)
(* a line with a rule with each justification number j kept when           *)
(* j < lineno and replaced by j + offset otherwise.                        *)
(***************************************************************************)
DerivationNumbers(proof) ==
    {i \in 0 .. Len(proof.lines) - 1 : ~is_assumption(At(proof.lines, i))}

DerivationsBefore(proof, i) ==
    Cardinality({e \in DerivationNumbers(proof) : e < i})

C16_SpliceLayout ==
    (pc = "_inline_proof_once" /\ outcome = "returned")
        => LET partial == prove_specialization(lemma, rule_for_line(main, lineno))
               spliced == main.lines[lineno + 1]
               d == Cardinality(DerivationNumbers(lemma))
               offset == d - 1
           IN  /\ Len(result.lines) = Len(main.lines) + offset
               /\ \A i \in 0 .. lineno - 1 : At(result.lines, i) = At(main.lines, i)
               /\ \A i \in DerivationNumbers(lemma) :
                      LET copy == At(result.lines, lineno + DerivationsBefore(lemma, i))
                          original == At(partial.lines, i)
                      IN  /\ copy.formula = original.formula
                          /\ copy.rule = original.rule
                          /\ Len(copy.assumptions) = Len(original.assumptions)
                          /\ \A a \in DOMAIN original.assumptions :
                                 LET j == original.assumptions[a]
                                 IN  IF is_assumption(At(partial.lines, j))
                                     THEN \E b \in DOMAIN spliced.assumptions :
                                              /\ partial.statement.assumptions[b]
                                                     = At(partial.lines, j).formula
                                              /\ copy.assumptions[a] = spliced.assumptions[b]
                                     ELSE copy.assumptions[a]
                                              = lineno + DerivationsBefore(lemma, j)
               /\ \A i \in lineno + 1 .. Len(main.lines) - 1 :
                      LET old == At(main.lines, i)
                          new == At(result.lines, i + offset)
                      IN  /\ new.formula = old.formula
                          /\ new.rule = old.rule
                          /\ is_assumption(old) => new = old
                          /\ Len(new.assumptions) = Len(old.assumptions)
                          /\ \A a \in DOMAIN old.assumptions :
                                 new.assumptions[a] =
                                     IF old.assumptions[a] < lineno THEN old.assumptions[a]
                                     ELSE old.assumptions[a] + offset

C16_Witness ==
    /\ pc = "_inline_proof_once"
    /\ outcome = "returned"
    /\ lineno = 1
    /\ Len(main.lines) = 3
    /\ main.lines[3].assumptions = <<1>>
    /\ Len(result.lines) = 4
    /\ result.lines[4].assumptions = <<2>>

(***************************************************************************)
(* C17: prove_specialization(main, target) changes formulas only: the      *)
(* proof it returns has the rules of main and as many lines, each with the *)
(* rule and the justification numbers of the line of main of that number,  *)
(* and as formula that line's formula with the map                         *)
(* main.statement.specialization_map(target) substituted, all variables at *)
(* once; main is as it was.                                                *)
(***************************************************************************)
C17_OnlyFormulasChange ==
    [][(pc' = "prove_specialization" /\ outcome' = "returned")
          => /\ main' = main
             /\ result'.rules = main.rules
             /\ Len(result'.lines) = Len(main.lines)
             /\ \A i \in DOMAIN main.lines :
                    /\ result'.lines[i].rule = main.lines[i].rule
                    /\ result'.lines[i].assumptions = main.lines[i].assumptions
                    /\ result'.lines[i].formula =
                           substitute_variables(main.lines[i].formula,
                               specialization_map(main.statement, target'))]_vars

C17_Witness ==
    /\ pc = "prove_specialization"
    /\ outcome = "returned"
    /\ main.statement = InferenceRule(<<P, Q>>, Not(Q))
    /\ target = InferenceRule(<<Q, P>>, Not(P))
    /\ Len(main.lines) = MaxLines
    /\ result.lines[1].formula # main.lines[1].formula

(***************************************************************************)
(* C18: for valid proofs main and lemma, no line of lemma having lemma's   *)
(* statement as its rule, inline_proof(main, lemma) terminates and returns *)
(* a proof: as long as a line of new_proof uses lemma's statement, the     *)
(* iteration of the loop splices, leaves one such line fewer and goes on   *)
(* (it does not raise); when none is left the call returns.                *)
(***************************************************************************)
C18_InlineProofTerminates ==
    [][(pc = "inline_proof" /\ Uses(lemma, lemma.statement) = 0)
          => /\ pc' # "inline_proof_raised"
             /\ pc' = "inline_proof"
                    => Uses(new_proof', lemma.statement)
                           = Uses(new_proof, lemma.statement) - 1
             /\ LemmaUses(new_proof, lemma) = {} => pc' = "inline_proof_returned"]_vars

(***************************************************************************)
(* C19: a map returned by general.specialization_map(candidate) has as     *)
(* keys the variable names of general, all of them and no other name, and  *)
(* binds each to the sub-formula that candidate has at every position at   *)
(* which general has that variable.  A position in a formula is the tuple  *)
(* of the operand numbers (2 for first, 3 for second) that lead to it.     *)
(***************************************************************************)
RECURSIVE occurrences(_, _)
occurrences(formula, v) ==
    IF Len(formula) = 1 THEN (IF formula[1] = v THEN {<<>>} ELSE {})
    ELSE IF Len(formula) = 2 THEN {<<2>> \o path : path \in occurrences(formula[2], v)}
    ELSE {<<2>> \o path : path \in occurrences(formula[2], v)}
             \cup {<<3>> \o path : path \in occurrences(formula[3], v)}

RECURSIVE subformula_at(_, _)
subformula_at(formula, path) ==
    IF path = <<>> THEN formula ELSE subformula_at(formula[Head(path)], Tail(path))

C19_MinimalMap ==
    (pc = "specialization_map" /\ sm # None)
        => /\ DOMAIN sm = variables(general)
           /\ \A v \in DOMAIN sm :
                  /\ \A path \in occurrences(general.conclusion, v) :
                         sm[v] = subformula_at(candidate.conclusion, path)
                  /\ \A i \in DOMAIN general.assumptions :
                         \A path \in occurrences(general.assumptions[i], v) :
                             sm[v] = subformula_at(candidate.assumptions[i], path)

C19_Witness ==
    /\ pc = "specialization_map"
    /\ sm # None
    /\ DOMAIN sm = {"p", "q"}
    /\ "q" \notin formula_variables(general.conclusion)
    /\ sm["p"] = <<"T">>
    /\ "q" \in formula_variables(sm["q"])

====
